---- MODULE Spec2Model ----
(***************************************************************************)
(* Time capsule canister (icp_rust_boilerplate_backend/src/lib.rs).        *)
(*                                                                         *)
(* The canister keeps two stable regions, CAPSULE_STORAGE (id -> capsule)  *)
(* and ID_COUNTER, and exposes one update call and three query calls.      *)
(* Every call is one message: it runs to completion, reads the caller and  *)
(* the host time once, and returns a value.  The host time never goes      *)
(* back between messages.                                                  *)
(*                                                                         *)
(* Times are clock ticks.  Latitudes and longitudes are whole degrees,     *)
(* multiples of 90; angles are in milliradians and distances in metres     *)
(* (kilometres times milliradians).                                        *)
(*                                                                         *)
(* last is the call made at the current time and the value it returned;    *)
(* assigned is the ids the successful creations returned, in call order.   *)
(* Neither is read by the canister.                                        *)
(***************************************************************************)
EXTENDS Integers, Sequences, FiniteSets, TLC

VARIABLES storage, counter, now, last, assigned

vars == <<storage, counter, now, last, assigned>>

(* ------------------------------ bounds -------------------------------- *)

\* Creations the model follows.
MaxCapsules == 2

\* Largest host time the model follows.
MaxTime == 2

(* ------------------------------ inputs -------------------------------- *)

\* Principals calling the canister.
Callers == {"alice", "bob"}

\* unlock_date values a payload may carry.
UnlockDates == {1, 2}

\* Option<T>: None is the empty sequence, Some(x) is <<x>>.
None == << >>

Some(x) == <<x>>

\* enum CapsuleContent (the variants used as inputs)
Text(s) == [tag |-> "Text", text |-> s]

\* BoundedStorable::MAX_SIZE, in bytes
MAX_SIZE == 1024 * 1024

\* CapsuleContent::EncryptedMessage, its content given by its length in bytes
EncryptedMessage(content_len, public_key) ==
    [tag |-> "EncryptedMessage", content_len |-> content_len,
     public_key |-> public_key]

\* enum AccessControl
Public == [tag |-> "Public"]

Private(viewers) == [tag |-> "Private", allowed_viewers |-> viewers]

Conditional(type, data) ==
    [tag |-> "Conditional", condition_type |-> type, condition_data |-> data]

\* the three condition types validate_condition knows, and two it does not
ConditionTypes == {"token_holder", "geo_location", "quiz", "", "blood_moon"}

\* struct GeoLocation
GeoLocation(lat, lon) ==
    [latitude |-> lat, longitude |-> lon, location_name |-> "place"]

\* <<latitude, longitude>> in degrees
Points == {<<0, 0>>, <<0, 90>>}

LocationAt(p) == Some(GeoLocation(p[1], p[2]))

\* struct CapsuleMetadata
Metadata(loc) ==
    [title |-> "title", description |-> "description", tags |-> << >>,
     location |-> loc, cultural_significance |-> None]

\* radius_km arguments, in metres
Radii == {0, 12000000}

\* struct CreateCapsulePayload
Payload(content, unlock_date, access_control, metadata) ==
    [content |-> content, unlock_date |-> unlock_date,
     access_control |-> access_control, metadata |-> metadata]

\* The payloads sent to the canister, less their unlock_date: one of each
\* access variant, with and without a location, with and without text.
Bodies ==
    {<<Text("hello"), Public, Metadata(LocationAt(<<0, 0>>))>>,
     <<Text(""), Private(<<"bob">>), Metadata(LocationAt(<<0, 90>>))>>,
     <<Text("hello"), Conditional("blood_moon", "data"), Metadata(None)>>}

\* A payload whose content alone is longer than a stored record may be.
OversizedBodies ==
    {<<EncryptedMessage(MAX_SIZE + 1, "key"), Public, Metadata(None)>>}

\* Conditional payloads, one for every condition type.
ConditionalBodies ==
    {<<Text("hello"), Conditional(ty, "data"), Metadata(None)>> :
        ty \in ConditionTypes}

PayloadsOf(bodies) ==
    {Payload(b[1], u, b[2], b[3]) : b \in bodies, u \in UnlockDates}

(* ------------------------------ results ------------------------------- *)

Ok(v) == [ok |-> TRUE, value |-> v]

Err(e) == [ok |-> FALSE, err |-> e]

\* the call trapped: the caller gets a reject and no value
Trap(e) == [ok |-> FALSE, trap |-> e]

(* --------------------------- stable storage --------------------------- *)

\* StableBTreeMap::get
Get(map, key) == IF key \in DOMAIN map THEN Some(map[key]) ELSE None

\* an insert into a map that was initialised anew
InsertIntoEmpty(map, key, value) == [k \in {key} |-> value]

\* StableBTreeMap::insert: overwrites the value of an existing key
Insert(map, key, value) ==
    [k \in DOMAIN map \cup {key} |-> IF k = key THEN value ELSE map[k]]

Max(S) == CHOOSE x \in S : \A y \in S : x >= y

RECURSIVE IterDownFrom(_, _)
IterDownFrom(map, keys) ==
    IF keys = {} THEN << >>
    ELSE LET k == Max(keys)
         IN  <<map[k]>> \o IterDownFrom(map, keys \ {k})

\* an iteration in descending key order
IterDescending(map) == IterDownFrom(map, DOMAIN map)

Min(S) == CHOOSE x \in S : \A y \in S : x <= y

RECURSIVE IterFrom(_, _)
IterFrom(map, keys) ==
    IF keys = {} THEN << >>
    ELSE LET k == Min(keys)
         IN  <<map[k]>> \o IterFrom(map, keys \ {k})

\* StableBTreeMap::iter, mapped to the values: ascending key order
Iter(map) == IterFrom(map, DOMAIN map)

\* Vec::contains
Contains(seq, x) == \E i \in 1 .. Len(seq) : seq[i] = x

(* ------------------------------ state --------------------------------- *)

NoCall == [op |-> "none"]

Init ==
    /\ storage = << >>
    /\ counter = 0
    /\ now = 0
    /\ last = NoCall
    /\ assigned = << >>

(* ------------------------- create_time_capsule ------------------------ *)

\* a validation that lets unlock_date = current_time through
UnlockDateInPast(payload, current_time) ==
    payload.unlock_date < current_time

\* a validation that was left out
UnlockDateNeverChecked(payload, current_time) == FALSE

\* the validation of the payload
UnlockDateNotInFuture(payload, current_time) ==
    payload.unlock_date <= current_time

\* a counter that is read and never written back
CounterNotIncremented(current_value) == current_value

\* the value written back to ID_COUNTER
IncrementedCounter(current_value) == current_value + 1

\* the bytes of the content, which the encoding of a capsule holds in full
ContentBytes(content) ==
    CASE content.tag = "Text" -> Len(content.text)
      [] content.tag = "EncryptedMessage" -> content.content_len

\* Storable::to_bytes yields more than MAX_SIZE bytes
TooLarge(capsule) == ContentBytes(capsule.content) > MAX_SIZE

\* a trap that leaves the writes made before it in place
KeptAfterTrap(before, written) == written

\* an update call that traps has its writes discarded by the host
RolledBack(before, written) == before

\* a record whose two dates are taken from each other's source
NewCapsuleDatesSwapped(capsule_id, caller, current_time, payload) ==
    [id |-> capsule_id,
     creator |-> caller,
     creation_date |-> payload.unlock_date,
     unlock_date |-> current_time,
     content |-> payload.content,
     access_control |-> payload.access_control,
     metadata |-> payload.metadata,
     status |-> "Sealed"]

\* the record built from the payload
NewCapsule(capsule_id, caller, current_time, payload) ==
    [id |-> capsule_id,
     creator |-> caller,
     creation_date |-> current_time,
     unlock_date |-> payload.unlock_date,
     content |-> payload.content,
     access_control |-> payload.access_control,
     metadata |-> payload.metadata,
     status |-> "Sealed"]

create_time_capsule(caller, current_time, payload) ==
    /\ UNCHANGED now
    /\ IF UnlockDateNotInFuture(payload, current_time)
       THEN /\ last' = [op |-> "create_time_capsule", caller |-> caller,
                        time |-> current_time, payload |-> payload,
                        result |-> Err("Unlock date must be in the future")]
            /\ UNCHANGED <<storage, counter, assigned>>
       ELSE LET capsule_id == counter
                capsule == NewCapsule(capsule_id, caller, current_time, payload)
            IN  /\ counter < MaxCapsules
                /\ IF TooLarge(capsule)
                   THEN \* insert panics on the record: the call traps
                        /\ counter' = RolledBack(counter,
                                                 IncrementedCounter(counter))
                        /\ UNCHANGED <<storage, assigned>>
                        /\ last' = [op |-> "create_time_capsule",
                                    caller |-> caller, time |-> current_time,
                                    payload |-> payload,
                                    result |-> Trap("value too large")]
                   ELSE /\ counter' = IncrementedCounter(counter)
                        /\ storage' = Insert(storage, capsule_id, capsule)
                        /\ assigned' = Append(assigned, capsule.id)
                        /\ last' = [op |-> "create_time_capsule",
                                    caller |-> caller, time |-> current_time,
                                    payload |-> payload,
                                    result |-> Ok(capsule)]

CreateFrom(creators, bodies) ==
    \E caller \in creators, payload \in PayloadsOf(bodies) :
        create_time_capsule(caller, now, payload)

Create == CreateFrom(Callers, Bodies \cup OversizedBodies)

(* ----------------------------- get_capsule ---------------------------- *)

\* Result<(), String>::Ok(())
Unit == "()"

\* a dispatch that has lost its geo_location arm
validate_condition_without_geo(condition_type, condition_data, caller) ==
    CASE condition_type = "token_holder" -> Ok(Unit)
      [] condition_type = "quiz" -> Ok(Unit)
      [] OTHER -> Err("Unknown condition type")

validate_condition(condition_type, condition_data, caller) ==
    CASE condition_type = "token_holder" -> Ok(Unit)
      [] condition_type = "geo_location" -> Ok(Unit)
      [] condition_type = "quiz" -> Ok(Unit)
      [] OTHER -> Err("Unknown condition type")

\* a time gate that opens one tick late
SealedUntilAfter(capsule, current_time) == current_time <= capsule.unlock_date

\* a time gate that is open at unlock_date only
SealedExceptAtUnlock(capsule, current_time) ==
    current_time # capsule.unlock_date

\* the time gate
StillSealed(capsule, current_time) == current_time < capsule.unlock_date

\* a match whose Private arm forgets the creator
CheckAccessViewersOnly(capsule, caller) ==
    LET access == capsule.access_control
    IN  CASE access.tag = "Public" -> Ok(capsule)
          [] access.tag = "Private" ->
                IF Contains(access.allowed_viewers, caller)
                THEN Ok(capsule)
                ELSE Err("Access denied")
          [] access.tag = "Conditional" ->
                LET checked == validate_condition(access.condition_type,
                                                  access.condition_data, caller)
                IN  IF checked.ok THEN Ok(capsule) ELSE checked

\* the match on capsule.access_control
CheckAccess(capsule, caller) ==
    LET access == capsule.access_control
    IN  CASE access.tag = "Public" -> Ok(capsule)
          [] access.tag = "Private" ->
                IF Contains(access.allowed_viewers, caller)
                       \/ capsule.creator = caller
                THEN Ok(capsule)
                ELSE Err("Access denied")
          [] access.tag = "Conditional" ->
                LET checked == validate_condition(access.condition_type,
                                                  access.condition_data, caller)
                IN  IF checked.ok THEN Ok(capsule) ELSE checked

\* a get_capsule that evaluates the access before the time gate
GetCapsuleResultAccessFirst(map, capsule_id, caller, current_time) ==
    LET found == Get(map, capsule_id)
    IN  IF found # None
        THEN LET capsule == found[1]
                 access == CheckAccess(capsule, caller)
             IN  IF ~access.ok THEN access
                 ELSE IF StillSealed(capsule, current_time)
                      THEN Err("Capsule is still sealed")
                      ELSE access
        ELSE Err("Capsule not found")

\* a get_capsule that derives the status of the capsule it returns
GetCapsuleResultDerivingStatus(map, capsule_id, caller, current_time) ==
    LET found == Get(map, capsule_id)
    IN  IF found # None
        THEN LET capsule == found[1]
                 access == CheckAccess(capsule, caller)
             IN  IF StillSealed(capsule, current_time)
                 THEN Err("Capsule is still sealed")
                 ELSE IF access.ok
                      THEN Ok([capsule EXCEPT !.status = "Unlocked"])
                      ELSE access
        ELSE Err("Capsule not found")

\* a get_capsule that does not tell a sealed capsule from a missing one
GetCapsuleResultHidingSealed(map, capsule_id, caller, current_time) ==
    LET found == Get(map, capsule_id)
    IN  IF found # None
        THEN LET capsule == found[1]
             IN  IF StillSealed(capsule, current_time)
                 THEN Err("Capsule not found")
                 ELSE CheckAccess(capsule, caller)
        ELSE Err("Capsule not found")

\* the value get_capsule returns
GetCapsuleResult(map, capsule_id, caller, current_time) ==
    LET found == Get(map, capsule_id)
    IN  IF found # None
        THEN LET capsule == found[1]
             IN  IF StillSealed(capsule, current_time)
                 THEN Err("Capsule is still sealed")
                 ELSE CheckAccess(capsule, caller)
        ELSE Err("Capsule not found")

\* a get_capsule that writes the status Unlocked back when it succeeds
get_capsule_marking_unlocked(caller, current_time, capsule_id) ==
    LET result == GetCapsuleResult(storage, capsule_id, caller, current_time)
    IN  /\ last' = [op |-> "get_capsule", caller |-> caller,
                    time |-> current_time, capsule_id |-> capsule_id,
                    result |-> result]
        /\ storage' = IF result.ok
                       THEN [storage EXCEPT ![capsule_id].status = "Unlocked"]
                       ELSE storage
        /\ UNCHANGED <<counter, now, assigned>>

get_capsule(caller, current_time, capsule_id) ==
    /\ last' = [op |-> "get_capsule", caller |-> caller,
                time |-> current_time, capsule_id |-> capsule_id,
                result |-> GetCapsuleResult(storage, capsule_id, caller,
                                            current_time)]
    /\ UNCHANGED <<storage, counter, now, assigned>>

GetCapsule ==
    \E caller \in Callers, capsule_id \in 0 .. MaxCapsules :
        get_capsule(caller, now, capsule_id)

(* -------------------------- get_public_capsules ----------------------- *)

\* a filter that forgets the access variant
UnlockedOnly(capsule, current_time) ==
    current_time >= capsule.unlock_date

\* a filter that opens one tick after get_capsule does
PublicAndPastUnlock(capsule, current_time) ==
    /\ capsule.access_control.tag = "Public"
    /\ current_time > capsule.unlock_date

\* the filter closure
PublicAndUnlocked(capsule, current_time) ==
    /\ capsule.access_control.tag = "Public"
    /\ current_time >= capsule.unlock_date

GetPublicCapsulesResult(map, current_time) ==
    LET Keep(capsule) == PublicAndUnlocked(capsule, current_time)
    IN  SelectSeq(Iter(map), Keep)

get_public_capsules(current_time) ==
    /\ last' = [op |-> "get_public_capsules", time |-> current_time,
                result |-> GetPublicCapsulesResult(storage, current_time)]
    /\ UNCHANGED <<storage, counter, now, assigned>>

GetPublicCapsules == get_public_capsules(now)

(* ------------------------ get_capsules_by_location -------------------- *)

\* Earth's radius in kilometers
R == 6371

Abs(x) == IF x < 0 THEN -x ELSE x

\* twice the square of the sine of half an angle of d degrees
TwiceSinSqHalf(d) ==
    LET m == Abs(d) % 360
    IN  CASE m = 0 -> 0
          [] m = 90 -> 1
          [] m = 180 -> 2
          [] m = 270 -> 1

\* the cosine of an angle of d degrees
Cos(d) ==
    LET m == Abs(d) % 360
    IN  CASE m = 0 -> 1
          [] m = 90 -> 0
          [] m = 180 -> -1
          [] m = 270 -> 0

\* 2 * asin(sqrt(a)) in milliradians, for a given as twice its value
TwiceAsinSqrt(twice_a) ==
    CASE twice_a = 0 -> 0
      [] twice_a = 1 -> 1571
      [] twice_a = 2 -> 3142

\* Haversine formula, the result in metres
calculate_distance(lat1, lon1, lat2, lon2) ==
    LET delta_lat == lat2 - lat1
        delta_lon == lon2 - lon1
        twice_a == TwiceSinSqHalf(delta_lat)
                       + Cos(lat1) * Cos(lat2) * TwiceSinSqHalf(delta_lon)
        c == TwiceAsinSqrt(twice_a)
    IN  R * c

\* a filter that leaves out the capsules at exactly radius_km
StrictlyWithinRadius(capsule, latitude, longitude, radius_km) ==
    IF capsule.metadata.location # None
    THEN LET location == capsule.metadata.location[1]
         IN  calculate_distance(latitude, longitude,
                                location.latitude, location.longitude)
                 < radius_km
    ELSE FALSE

\* the filter closure
WithinRadius(capsule, latitude, longitude, radius_km) ==
    IF capsule.metadata.location # None
    THEN LET location == capsule.metadata.location[1]
         IN  calculate_distance(latitude, longitude,
                                location.latitude, location.longitude)
                 <= radius_km
    ELSE FALSE

GetCapsulesByLocationResult(map, latitude, longitude, radius_km) ==
    LET Keep(capsule) == WithinRadius(capsule, latitude, longitude, radius_km)
    IN  SelectSeq(Iter(map), Keep)

get_capsules_by_location(current_time, latitude, longitude, radius_km) ==
    /\ last' = [op |-> "get_capsules_by_location", time |-> current_time,
                latitude |-> latitude, longitude |-> longitude,
                radius_km |-> radius_km,
                result |-> GetCapsulesByLocationResult(storage, latitude,
                                                       longitude, radius_km)]
    /\ UNCHANGED <<storage, counter, now, assigned>>

GetCapsulesByLocation ==
    \E p \in Points, radius_km \in Radii :
        get_capsules_by_location(now, p[1], p[2], radius_km)

(* ------------------------------ the host ------------------------------ *)

\* The host time moves on between two messages.
Tick ==
    /\ now < MaxTime
    /\ now' = now + 1
    /\ last' = NoCall
    /\ UNCHANGED <<storage, counter, assigned>>

Next == Create \/ GetCapsule \/ GetPublicCapsules \/ GetCapsulesByLocation \/ Tick

Spec == Init /\ [][Next]_vars

\* Only Conditional capsules are created, one for every condition type.
CreateConditional == CreateFrom({"alice"}, ConditionalBodies)

NextConditional ==
    CreateConditional \/ GetCapsule \/ GetPublicCapsules
        \/ GetCapsulesByLocation \/ Tick

SpecConditional == Init /\ [][NextConditional]_vars

(* ============================ properties ============================== *)

\* the stored capsule a get_capsule call asked for
Asked == storage[last.capsule_id]

\* the last call was a get_capsule of a stored capsule
GotStored == last.op = "get_capsule" /\ last.capsule_id \in DOMAIN storage

\* the principals of an allow-list
Viewers(capsule) ==
    {capsule.access_control.allowed_viewers[i] :
        i \in 1 .. Len(capsule.access_control.allowed_viewers)}

\* the state a Create that fails must leave alone
Stored == <<storage, counter>>

\* C1: get_capsule of a stored capsule at a time before its unlock_date
\* returns the "still sealed" error whatever the access_control and the
\* caller: never the capsule, "Access denied" or "Unknown condition type".
C1_SealedWhateverAccess ==
    (GotStored /\ last.time < Asked.unlock_date)
        => last.result = Err("Capsule is still sealed")

\* A sealed Private capsule asked for by a principal that is neither its
\* creator nor an allowed viewer.
C1_Witness ==
    /\ GotStored
    /\ last.time < Asked.unlock_date
    /\ Asked.access_control.tag = "Private"
    /\ last.caller # Asked.creator
    /\ last.caller \notin Viewers(Asked)
    /\ last.result = Err("Capsule is still sealed")

\* C2: get_capsule of a stored Private capsule at or after its unlock_date
\* returns the capsule when the caller is the creator or an allowed viewer,
\* and the "Access denied" error otherwise.
C2_PrivateIffCreatorOrViewer ==
    (GotStored /\ Asked.access_control.tag = "Private"
        /\ last.time >= Asked.unlock_date)
        => IF last.caller = Asked.creator \/ last.caller \in Viewers(Asked)
           THEN last.result = Ok(Asked)
           ELSE last.result = Err("Access denied")

\* An unlocked Private capsule denied to a stranger.
C2_Witness ==
    /\ GotStored
    /\ Asked.access_control.tag = "Private"
    /\ last.time >= Asked.unlock_date
    /\ last.caller # Asked.creator
    /\ last.caller \notin Viewers(Asked)
    /\ last.result = Err("Access denied")

\* C3: a create_time_capsule whose unlock_date is at or before the current
\* time returns the "must be in the future" error, whatever the rest of the
\* payload, and leaves the storage and the counter as they were.
C3_PastUnlockDateRejected ==
    [][(last'.op = "create_time_capsule"
            /\ last'.payload.unlock_date <= last'.time)
        => (/\ last'.result = Err("Unlock date must be in the future")
            /\ Stored' = Stored)]_vars

\* A payload with empty text and unlock_date = now, rejected when a capsule
\* is already stored.
C3_Witness ==
    /\ last.op = "create_time_capsule"
    /\ last.payload.unlock_date = last.time
    /\ last.payload.content = Text("")
    /\ last.result = Err("Unlock date must be in the future")
    /\ counter > 0

\* C4: a create_time_capsule whose content is empty text and whose
\* unlock_date is after the current time returns the "content cannot be
\* empty" error and leaves the storage and the counter as they were.
C4_EmptyTextRejected ==
    [][(last'.op = "create_time_capsule"
            /\ last'.payload.content = Text("")
            /\ last'.payload.unlock_date > last'.time)
        => (/\ last'.result = Err("Content cannot be empty")
            /\ Stored' = Stored)]_vars

\* C5: the k-th create_time_capsule that succeeded returned id k - 1, and
\* the counter is the number of those that succeeded: a create that failed
\* took no id.
C5_IdsInCallOrder ==
    /\ counter = Len(assigned)
    /\ \A k \in 1 .. Len(assigned) : assigned[k] = k - 1

\* Two creates succeeded and a later one failed.
C5_Witness ==
    /\ Len(assigned) >= 2
    /\ last.op = "create_time_capsule"
    /\ ~last.result.ok

\* C6: get_capsule of a stored Public capsule at or after its unlock_date
\* returns that capsule to every caller.
C6_PublicUnlockedSucceeds ==
    (GotStored /\ Asked.access_control.tag = "Public"
        /\ last.time >= Asked.unlock_date)
        => last.result = Ok(Asked)

\* A Public capsule returned at its unlock_date to a principal that did
\* not create it.
C6_Witness ==
    /\ GotStored
    /\ Asked.access_control.tag = "Public"
    /\ last.time = Asked.unlock_date
    /\ last.caller # Asked.creator
    /\ last.result = Ok(Asked)

\* C7: get_capsule of a stored Conditional capsule at or after its
\* unlock_date returns the capsule when condition_type is token_holder,
\* geo_location or quiz, and the "Unknown condition type" error for every
\* other condition_type, the empty one included.
C7_ConditionalDispatch ==
    (GotStored /\ Asked.access_control.tag = "Conditional"
        /\ last.time >= Asked.unlock_date)
        => IF Asked.access_control.condition_type
                  \in {"token_holder", "geo_location", "quiz"}
           THEN last.result = Ok(Asked)
           ELSE last.result = Err("Unknown condition type")

\* An unlocked capsule with the empty condition_type, refused.
C7_Witness ==
    /\ GotStored
    /\ Asked.access_control.tag = "Conditional"
    /\ Asked.access_control.condition_type = ""
    /\ last.time >= Asked.unlock_date
    /\ last.result = Err("Unknown condition type")

\* a stored capsule is Public and unlocked at the time of the last call
ListedAsPublic(id) ==
    /\ storage[id].access_control.tag = "Public"
    /\ storage[id].unlock_date <= last.time

\* the places of a stored capsule in the list the last call returned
PlacesOf(id) == {i \in 1 .. Len(last.result) : last.result[i] = storage[id]}

\* C8: get_public_capsules returns every stored capsule that is Public with
\* unlock_date <= now once, and nothing else.
C8_PublicUnlockedExactly ==
    last.op = "get_public_capsules"
        => /\ \A id \in DOMAIN storage :
                Cardinality(PlacesOf(id)) = IF ListedAsPublic(id) THEN 1 ELSE 0
           /\ \A i \in 1 .. Len(last.result) :
                \E id \in DOMAIN storage : last.result[i] = storage[id]

\* A list of one capsule while an unlocked capsule that is not Public is
\* stored too.
C8_Witness ==
    /\ last.op = "get_public_capsules"
    /\ Len(last.result) = 1
    /\ \E id \in DOMAIN storage :
            /\ storage[id].access_control.tag # "Public"
            /\ storage[id].unlock_date <= last.time

\* a stored capsule has a location within the radius of the last call
ListedAsNear(id) ==
    /\ storage[id].metadata.location # None
    /\ calculate_distance(last.latitude, last.longitude,
                          storage[id].metadata.location[1].latitude,
                          storage[id].metadata.location[1].longitude)
           <= last.radius_km

\* C9: get_capsules_by_location returns every stored capsule that has a
\* location at most radius_km away once, and nothing else: the time, the
\* caller and the access_control play no part.
C9_WithinRadiusExactly ==
    last.op = "get_capsules_by_location"
        => /\ \A id \in DOMAIN storage :
                Cardinality(PlacesOf(id)) = IF ListedAsNear(id) THEN 1 ELSE 0
           /\ \A i \in 1 .. Len(last.result) :
                \E id \in DOMAIN storage : last.result[i] = storage[id]

\* A sealed Private capsule is returned, and a stored capsule without a
\* location is left out.
C9_Witness ==
    /\ last.op = "get_capsules_by_location"
    /\ \E i \in 1 .. Len(last.result) :
            /\ last.result[i].access_control.tag = "Private"
            /\ last.time < last.result[i].unlock_date
    /\ \E id \in DOMAIN storage : storage[id].metadata.location = None

\* C10: no query returns a capsule at a time before its unlock_date.
C10_NoQueryReturnsSealed ==
    /\ (last.op = "get_capsule" /\ last.result.ok)
            => last.time >= last.result.value.unlock_date
    /\ last.op \in {"get_public_capsules", "get_capsules_by_location"}
            => \A i \in 1 .. Len(last.result) :
                    last.time >= last.result[i].unlock_date

\* the last call was a create_time_capsule that returned a capsule
Created == last.op = "create_time_capsule" /\ last.result.ok

\* C11: a create_time_capsule that succeeds returns a record with the
\* counter value before the call as id, the caller as creator, the current
\* time as creation_date, status Sealed and the four fields of the payload,
\* and the storage then holds that record under that id.
C11_CreateReturnsStampedRecord ==
    [][(last'.op = "create_time_capsule" /\ last'.result.ok)
        => LET capsule == last'.result.value
           IN  /\ capsule.id = counter
               /\ capsule.creator = last'.caller
               /\ capsule.creation_date = now
               /\ capsule.status = "Sealed"
               /\ capsule.content = last'.payload.content
               /\ capsule.unlock_date = last'.payload.unlock_date
               /\ capsule.access_control = last'.payload.access_control
               /\ capsule.metadata = last'.payload.metadata
               /\ capsule.id \in DOMAIN storage'
               /\ storage'[capsule.id] = capsule]_vars

\* The second capsule, created by bob after the time moved on.
C11_Witness ==
    /\ Created
    /\ last.result.value.id = 1
    /\ last.result.value.creator = "bob"
    /\ last.result.value.creation_date = 1
    /\ storage[1] = last.result.value

\* C12: the counter is the number of stored records and the stored ids are
\* 0 .. counter - 1, whatever made a create_time_capsule fail: a payload that
\* is not valid or a record over MAX_SIZE.
C12_CounterMatchesStorage ==
    /\ counter = Cardinality(DOMAIN storage)
    /\ DOMAIN storage = 0 .. counter - 1

\* A create of a record over MAX_SIZE that trapped when a capsule was stored.
C12_Witness ==
    /\ last.op = "create_time_capsule"
    /\ last.result = Trap("value too large")
    /\ counter = 1
    /\ DOMAIN storage = {0}

\* C13: a record stored under an id stays under that id with every field
\* as it was written.
C13_AppendOnly ==
    [][\A id \in DOMAIN storage :
            id \in DOMAIN storage' /\ storage'[id] = storage[id]]_vars

\* The first capsule is as it was created, after a tick and a second create.
C13_Witness ==
    /\ Created
    /\ last.result.value.id = 1
    /\ storage[0].id = 0
    /\ storage[0].creation_date < now
    /\ storage[0].status = "Sealed"

\* the value the last query would return if it were made again now
Repeated ==
    CASE last.op = "get_capsule" ->
            GetCapsuleResult(storage, last.capsule_id, last.caller, last.time)
      [] last.op = "get_public_capsules" ->
            GetPublicCapsulesResult(storage, last.time)
      [] last.op = "get_capsules_by_location" ->
            GetCapsulesByLocationResult(storage, last.latitude,
                                        last.longitude, last.radius_km)

QueryOps == {"get_capsule", "get_public_capsules", "get_capsules_by_location"}

\* C14: a query leaves the storage and the counter as they were, whether it
\* returns a value or an error, and made again with the same arguments, the
\* same caller and the same time it returns the same value.
C14_QueriesChangeNothing ==
    [][last'.op \in QueryOps
        => /\ storage' = storage
           /\ counter' = counter
           /\ Repeated' = last'.result]_vars

\* A get_capsule that returned an error while capsules are stored.
C14_Witness ==
    /\ GotStored
    /\ ~last.result.ok
    /\ counter = 2

\* C15: every stored capsule has its unlock_date after its creation_date.
C15_UnlockAfterCreation ==
    \A id \in DOMAIN storage :
        storage[id].unlock_date > storage[id].creation_date

\* A capsule created at time 1 that unlocks at time 2.
C15_Witness ==
    \E id \in DOMAIN storage :
        /\ storage[id].creation_date = 1
        /\ storage[id].unlock_date = 2

\* the records the last call returned
Returned ==
    CASE last.op \in {"create_time_capsule", "get_capsule"} ->
            IF last.result.ok THEN {last.result.value} ELSE {}
      [] last.op \in {"get_public_capsules", "get_capsules_by_location"} ->
            {last.result[i] : i \in 1 .. Len(last.result)}
      [] OTHER -> {}

\* C16: every stored capsule and every record a call returns has the
\* status Sealed, a record returned by get_capsule after unlock_date too.
C16_AlwaysSealed ==
    /\ \A id \in DOMAIN storage : storage[id].status = "Sealed"
    /\ \A capsule \in Returned : capsule.status = "Sealed"

\* get_capsule returned a capsule after its unlock_date, with status Sealed.
C16_Witness ==
    /\ GotStored
    /\ last.result.ok
    /\ last.time > last.result.value.unlock_date
    /\ last.result.value.status = "Sealed"

\* C17: get_capsule returns the "not found" error exactly when no record is
\* stored under the id, which is exactly when the id is at or above the
\* counter, whatever the caller and the time.
C17_NotFoundIffAbsent ==
    last.op = "get_capsule"
        => /\ (last.result = Err("Capsule not found"))
                <=> (last.capsule_id \notin DOMAIN storage)
           /\ (last.capsule_id \notin DOMAIN storage)
                <=> (last.capsule_id >= counter)

\* The id equal to the counter is asked for when capsules are stored.
C17_Witness ==
    /\ last.op = "get_capsule"
    /\ counter > 0
    /\ last.capsule_id = counter
    /\ last.result = Err("Capsule not found")

\* C18: the two listings return their capsules in strictly ascending id
\* order, which is the order of creation, so that none is listed twice.
C18_ListsAscendById ==
    last.op \in {"get_public_capsules", "get_capsules_by_location"}
        => \A i, j \in 1 .. Len(last.result) :
                i < j => /\ last.result[i].id < last.result[j].id
                         /\ last.result[i].creation_date
                                <= last.result[j].creation_date

\* A listing of two capsules created at different times.
C18_Witness ==
    /\ last.op \in {"get_public_capsules", "get_capsules_by_location"}
    /\ Len(last.result) = 2
    /\ last.result[1].creation_date < last.result[2].creation_date

\* the capsules get_public_capsules returns in this state
PublicNow ==
    LET listed == GetPublicCapsulesResult(storage, now)
    IN  {listed[i] : i \in 1 .. Len(listed)}

\* C19: once get_capsule succeeds for a caller it succeeds with the same
\* record for that caller after every step, the time never going back; once
\* get_public_capsules lists a capsule it lists it after every step (a step
\* that changes neither the storage nor the time changes no result).
C19_UnlockedForGood ==
    [][<<storage, now>>' # <<storage, now>>
        => /\ \A id \in DOMAIN storage, caller \in Callers :
                  GetCapsuleResult(storage, id, caller, now).ok
                      => GetCapsuleResult(storage', id, caller, now')
                             = GetCapsuleResult(storage, id, caller, now)
           /\ PublicNow \subseteq PublicNow']_vars

\* get_capsule succeeds at both times from unlock_date on.
C19_Witness ==
    /\ GotStored
    /\ last.result = Ok(Asked)
    /\ last.time = Asked.unlock_date + 1
    /\ GetCapsuleResult(storage, last.capsule_id, last.caller,
                        Asked.unlock_date) = Ok(Asked)

\* C20: get_public_capsules lists a stored capsule exactly when it is Public
\* and get_capsule at the same time returns it to every caller, and the
\* record listed is the record get_capsule returns.
C20_ListAgreesWithGet ==
    last.op = "get_public_capsules"
        => \A id \in DOMAIN storage :
                (PlacesOf(id) # {})
                    <=> /\ storage[id].access_control.tag = "Public"
                        /\ \A caller \in Callers :
                                GetCapsuleResult(storage, id, caller,
                                                 last.time)
                                    = Ok(storage[id])

\* A Public capsule listed at its unlock_date while another is still sealed.
C20_Witness ==
    /\ last.op = "get_public_capsules"
    /\ \E id \in DOMAIN storage :
            /\ PlacesOf(id) # {}
            /\ storage[id].unlock_date = last.time
    /\ \E id \in DOMAIN storage :
            /\ storage[id].access_control.tag = "Public"
            /\ PlacesOf(id) = {}

====
